---- MODULE Spec2Model ----
(***************************************************************************)
(* State-machine model of the signpdf editor: the overlay store of         *)
(* PdfEditorState, the drag/resize controller DragDropManager, the         *)
(* signature pad state of SignatureManager, and the asynchronous download  *)
(* (commit/embed) pass.                                                    *)
(*                                                                         *)
(* JavaScript numbers are modelled as extended rationals: a record        *)
(* [n, d] with d > 0 is the fraction n/d in lowest terms; d = 0 encodes   *)
(* the non-finite values (n = 1: Infinity, n = -1: -Infinity, n = 0: NaN). *)
(* Rounding is modelled only where a property depends on it: the round-   *)
(* trip specification evaluates the two conversions in IEEE 754 binary64. *)
(***************************************************************************)
EXTENDS Integers, Sequences, FiniteSets, TLC

VARIABLES
  pdfFile,         \* PdfEditorState.pdfFile: "none" or the loaded document
  loading,         \* documents whose loadPDF call is suspended at its await
  currentPage,     \* PdfEditorState.currentPage (0-based)
  signatures,      \* PdfEditorState.signatures
  formData,        \* FormFieldManager.formState.formData, per detected field
  signatureMode,   \* PdfEditorState.signatureMode
  sigManager,      \* PdfEditorState.signatureManager (SignatureManager fields)
  hasContainer,    \* DragDropManager.pdfPreviewContainer # null
  containerWidth,  \* DragDropManager.containerWidth
  containerHeight, \* DragDropManager.containerHeight
  dragState,       \* DragDropManager.dragState
  dl,              \* the running downloadPDF call, if any
  ev,              \* the last event delivered to the program
  gestures,        \* number of pointer-down events delivered so far
  fieldView,       \* a form field taken through getFieldBoundsForPage
  roundTrip,       \* a percentage taken through percentToPixels and back
  element          \* offsetWidth, offsetHeight of the preview container now

vars == <<pdfFile, loading, currentPage, signatures, formData, signatureMode,
          sigManager, hasContainer, containerWidth, containerHeight,
          dragState, dl, ev, gestures, fieldView, roundTrip, element>>

-----------------------------------------------------------------------------
(* Bounds of the model *)

\* At most this many overlays are kept in the store.
MaxSigs == 2

\* Cap on the stored width/height percentages that resize moves may produce.
MaxPercent == 30

\* At most this many pointer-down events are delivered in a run.
MaxGestures == 2

\* At most this many overlays are placed before a download.
MaxCommitSigs == 3

\* Pointer positions, in pixels relative to the container's top-left corner
\* (clientX - rect.left, clientY - rect.top).
Points == { <<50, 25>>, <<100, 50>>, <<140, 50>>, <<150, 75>> }

\* A pointer position outside the 500 x 250 container: the move listeners are
\* on the window.
FarPoints == { <<700, 400>> }

\* Container dimensions (offsetWidth / offsetHeight values) for which the
\* conversions are evaluated in binary64.
Dimensions == { 1, 3, 250, 500, 1000 }

\* Zero digits appended to a dividend before a long division, so that the
\* quotient has more than 54 significant digits.
ExtraBits == 16

\* Digits per limb in long multiplication and division.
LimbBits == 16

\* Two non-empty container sizes, for sessions in which the container is
\* resized while overlays are on it.
ResizedSizes == { <<500, 250>>, <<1000, 500>> }

\* A container size and a smaller one, for sessions in which the container
\* shrinks under overlays that were placed on it.
ShrunkSizes == { <<500, 250>>, <<400, 200>> }

\* Side of the resize handle in pixels (Tailwind w-4 h-4).
HandleSize == 16

\* Pixel sizes the preview container can have (offsetWidth, offsetHeight).
ContainerSizes == { <<0, 0>>, <<500, 250>> }

\* Documents the user can load: A has one page, B two pages of different
\* sizes, C one page and two form fields.
Docs == { "A", "B", "C" }

\* Page sizes in page units, as pdfDoc.getPages()[k].getSize() reports them.
PageSizes(doc) ==
  IF doc = "B" THEN << <<600, 800>>, <<800, 600>> >>
  ELSE << <<600, 800>> >>

\* The fields detectFormFields finds in the document: C has a required text
\* field of at most one character and an optional dropdown.
FormFields(doc) ==
  IF doc = "C"
  THEN << [type |-> "text", required |-> TRUE, maxLength |-> 1, options |-> {}],
          [type |-> "dropdown", required |-> FALSE, maxLength |-> 0,
           options |-> {"a"}] >>
  ELSE << >>

\* Number of form fields detectFormFields finds in the document.
NumFields(doc) == Len(FormFields(doc))

\* Values a form input can be given, and value.length.
FieldValues == {"", "a", "bb"}

StrLen(v) == IF v = "" THEN 0 ELSE IF v = "a" THEN 1 ELSE 2

\* Kinds of signature image strings:
\*   png        a data:image/png URL with a decodable payload
\*   jpeg       a data:image/jpeg URL with a decodable payload
\*   notImage   a string that does not start with "data:image/"
\*   badBase64  a data:image/ URL whose payload atob cannot decode
\*   badBytes   a data:image/ URL whose decoded bytes the embedder rejects
ImageKinds == { "png", "jpeg", "notImage", "badBase64", "badBytes" }

\* Strings FileReader.readAsDataURL can produce (always valid base64).
UploadKinds == { "png", "notImage", "badBytes" }

-----------------------------------------------------------------------------
(* JavaScript number arithmetic on extended rationals *)

Abs(i) == IF i < 0 THEN -i ELSE i

Sign(i) == IF i > 0 THEN 1 ELSE IF i < 0 THEN -1 ELSE 0

RECURSIVE GCD(_, _)
GCD(a, b) == IF b = 0 THEN a ELSE GCD(b, a % b)

\* The number n/d, normalised.
Norm(n, d) ==
  IF d = 0 THEN [n |-> Sign(n), d |-> 0]
  ELSE LET s == IF d < 0 THEN -1 ELSE 1
           g == GCD(Abs(n), Abs(d))
       IN  [n |-> (s * n) \div g, d |-> (s * d) \div g]

Num(i) == [n |-> i, d |-> 1]

NaN == [n |-> 0, d |-> 0]

IsFinite(a) == a.d # 0

IsNaN(a) == a.d = 0 /\ a.n = 0

Neg(a) == [n |-> -a.n, d |-> a.d]

\* a + b
Add(a, b) ==
  IF IsFinite(a) /\ IsFinite(b) THEN Norm(a.n * b.d + b.n * a.d, a.d * b.d)
  ELSE IF IsFinite(a) THEN b
  ELSE IF IsFinite(b) THEN a
  ELSE IF a.n = b.n THEN a ELSE NaN

\* a - b
Sub(a, b) == Add(a, Neg(b))

\* a * b (Infinity * 0 is NaN)
Mul(a, b) == Norm(a.n * b.n, a.d * b.d)

\* a / b (x / 0 is Infinity, -Infinity or NaN by the sign of x)
Div(a, b) == Mul(a, Norm(b.d, b.n))

\* a < b (false whenever an operand is NaN)
Less(a, b) ==
  IF IsNaN(a) \/ IsNaN(b) THEN FALSE
  ELSE IF ~IsFinite(a) /\ ~IsFinite(b) THEN a.n < b.n
  ELSE a.n * b.d < b.n * a.d

\* Math.max(a, b)
MathMax(a, b) ==
  IF IsNaN(a) \/ IsNaN(b) THEN NaN
  ELSE IF Less(a, b) THEN b ELSE a

-----------------------------------------------------------------------------
(* Coordinate conversion *)

percentToPixels(percent, dimension) == Mul(Div(percent, Num(100)), dimension)

pixelsToPercent(pixels, dimension) == Mul(Div(pixels, dimension), Num(100))

-----------------------------------------------------------------------------
(* IEEE 754 binary64, for positive normal numbers and zero *)

\* A number is [e, m]: m is the 53-bit significand, most significant bit
\* first, and the value is 1.m[2]m[3]... * 2^e; zero has an all-zero m.
F64Zero == [e |-> 0, m |-> [k \in 1..53 |-> 0]]

\* The binary digits of n >= 0, most significant first.
RECURSIVE BitsOf(_)
BitsOf(n) == IF n < 2 THEN <<n>> ELSE Append(BitsOf(n \div 2), n % 2)

PadBits(b, len) == b \o [k \in 1..(len - Len(b)) |-> 0]

\* b without its leading zeros, for digits that are not all zero.
StripBits(b) ==
  LET first == CHOOSE j \in 1..Len(b) :
                 b[j] = 1 /\ \A k \in 1..(j - 1) : b[k] = 0
  IN  SubSeq(b, first, Len(b))

\* Long multiplication and division work on limbs of LimbBits digits, so
\* that every intermediate value stays far below 2^31.
RECURSIVE Pow2(_)
Pow2(n) == IF n = 0 THEN 1 ELSE 2 * Pow2(n - 1)

RECURSIVE BitsValue(_, _)
BitsValue(b, i) == IF i = 0 THEN 0 ELSE 2 * BitsValue(b, i - 1) + b[i]

ToLimbs(b) ==
  LET pad == (LimbBits - (Len(b) % LimbBits)) % LimbBits
      pb == [k \in 1..pad |-> 0] \o b
  IN  [j \in 1..(Len(pb) \div LimbBits) |->
         BitsValue(SubSeq(pb, LimbBits * (j - 1) + 1, LimbBits * j), LimbBits)]

FromLimbs(l) ==
  [k \in 1..(LimbBits * Len(l)) |->
     (l[(k - 1) \div LimbBits + 1]
        \div Pow2(LimbBits - 1 - ((k - 1) % LimbBits))) % 2]

\* The limbs of l * k, for limbs l[1..i] with carry c from the lower ones.
RECURSIVE MulLimbs(_, _, _, _)
MulLimbs(l, k, i, c) ==
  IF i = 0 THEN <<c>>
  ELSE LET v == l[i] * k + c
       IN  Append(MulLimbs(l, k, i - 1, v \div Pow2(LimbBits)),
                  v % Pow2(LimbBits))

\* The digits of b * k, without leading zeros.
MulBits(b, k) ==
  LET l == ToLimbs(b)
  IN  StripBits(FromLimbs(MulLimbs(l, k, Len(l), 0)))

\* Long division of the limbs l[1..i] by k: quotient limbs and remainder.
RECURSIVE DivLimbs(_, _, _)
DivLimbs(l, k, i) ==
  IF i = 0 THEN [q |-> <<>>, r |-> 0]
  ELSE LET prev == DivLimbs(l, k, i - 1)
           v == prev.r * Pow2(LimbBits) + l[i]
       IN  [q |-> Append(prev.q, v \div k), r |-> v % k]

\* Long division of the digits b by k: as many quotient digits as b has,
\* and the remainder.
DivBits(b, k) ==
  LET l == ToLimbs(b)
      d == DivLimbs(l, k, Len(l))
      qb == FromLimbs(d.q)
  IN  [q |-> SubSeq(qb, Len(qb) - Len(b) + 1, Len(qb)), r |-> d.r]

\* b + 1 on 53 digits that are not all ones.
IncBits(b) ==
  LET j == CHOOSE j \in 1..Len(b) :
             b[j] = 0 /\ \A k \in (j + 1)..Len(b) : b[k] = 1
  IN  [k \in 1..Len(b) |-> IF k < j THEN b[k] ELSE IF k = j THEN 1 ELSE 0]

\* Round to nearest, ties to even: b has a leading 1 and stands for
\* 1.b[2]b[3]... * 2^e; sticky tells that digits beyond b are not all zero.
Round64(e, b, sticky) ==
  IF Len(b) <= 53 THEN [e |-> e, m |-> PadBits(b, 53)]
  ELSE LET keep == SubSeq(b, 1, 53)
           rest == sticky \/ \E k \in 55..Len(b) : b[k] = 1
           up == b[54] = 1 /\ (rest \/ keep[53] = 1)
       IN  IF ~up THEN [e |-> e, m |-> keep]
           ELSE IF \A k \in 1..53 : keep[k] = 1
             THEN [e |-> e + 1, m |-> [k \in 1..53 |-> IF k = 1 THEN 1 ELSE 0]]
           ELSE [e |-> e, m |-> IncBits(keep)]

F64FromInt(n) ==
  IF n = 0 THEN F64Zero
  ELSE [e |-> Len(BitsOf(n)) - 1, m |-> PadBits(BitsOf(n), 53)]

\* x * k and x / k for an integer k >= 1 (exactly representable): the exact
\* result, rounded once.
F64MulInt(x, k) ==
  IF x.m[1] = 0 THEN F64Zero
  ELSE LET b == MulBits(x.m, k)
       IN  Round64(x.e + Len(b) - 53, b, FALSE)

F64DivInt(x, k) ==
  IF x.m[1] = 0 THEN F64Zero
  ELSE LET d == DivBits(PadBits(x.m, 53 + ExtraBits), k)
           q == StripBits(d.q)
       IN  Round64(x.e - (Len(d.q) - Len(q)), q, d.r # 0)

\* The next number above x > 0.
F64Succ(x) ==
  IF \A k \in 1..53 : x.m[k] = 1
  THEN [e |-> x.e + 1, m |-> [k \in 1..53 |-> IF k = 1 THEN 1 ELSE 0]]
  ELSE [e |-> x.e, m |-> IncBits(x.m)]

\* percentToPixels / pixelsToPercent as evaluated on binary64 numbers, for
\* an integer dimension.
percentToPixels64(percent, dimension) ==
  F64MulInt(F64DivInt(percent, 100), dimension)

pixelsToPercentSwapped64(pixels, dimension) ==
  F64MulInt(F64DivInt(pixels, 100), dimension)

pixelsToPercent64(pixels, dimension) ==
  F64MulInt(F64DivInt(pixels, dimension), 100)

NoRoundTrip ==
  [stage |-> "none", p |-> 0, d |-> 1, pixels |-> F64Zero, percent |-> F64Zero]

-----------------------------------------------------------------------------
(* DragDropManager *)

Origin0 == [x |-> Num(0), y |-> Num(0), width |-> Num(0), height |-> Num(0)]

DragStateInit ==
  [isDragging |-> FALSE, isResizing |-> FALSE, dragIndex |-> -1,
   dragStart |-> Origin0, resizeStart |-> Origin0]

\* startDrag(e, index) with the pointer at p: the drag state afterwards.
startDrag(ds, p, index) ==
  IF ~hasContainer THEN ds
  ELSE [ds EXCEPT !.isDragging = TRUE,
                  !.dragIndex = index,
                  !.dragStart = [x |-> Num(p[1]), y |-> Num(p[2]),
                                 width |-> Num(0), height |-> Num(0)]]

\* startResize(e, index, signatures) with the pointer at p.
startResize(ds, p, index, sigs) ==
  IF ~hasContainer THEN ds
  ELSE [ds EXCEPT
          !.isResizing = TRUE,
          !.dragIndex = index,
          !.dragStart = [x |-> Num(p[1]), y |-> Num(p[2]),
                         width |-> Num(0), height |-> Num(0)],
          !.resizeStart =
             [x |-> Num(p[1]), y |-> Num(p[2]),
              width |-> percentToPixels(sigs[index + 1].widthPercent,
                                        Num(containerWidth)),
              height |-> percentToPixels(sigs[index + 1].heightPercent,
                                         Num(containerHeight))]]

\* A move handler that does not look at the flags of the drag state: it
\* moves the target, or the first overlay when there is no target.
onDragUnguarded(ds, p, sigs) ==
  IF ~hasContainer \/ Len(sigs) = 0 THEN sigs
  ELSE LET i == IF ds.dragIndex < 0 \/ ds.dragIndex >= Len(sigs) THEN 1
                ELSE ds.dragIndex + 1
       IN  [sigs EXCEPT
              ![i].xPercent = pixelsToPercent(Sub(Num(p[1]), ds.dragStart.x),
                                              Num(containerWidth)),
              ![i].yPercent = pixelsToPercent(Sub(Num(p[2]), ds.dragStart.y),
                                              Num(containerHeight))]

\* A move handler that adds the pointer's travel to the overlay's current
\* position instead of recomputing the position from the start.
onDragIncremental(ds, p, sigs) ==
  IF ~ds.isDragging \/ ds.dragIndex < 0 \/ ~hasContainer
     \/ ds.dragIndex >= Len(sigs) THEN sigs
  ELSE LET sig == sigs[ds.dragIndex + 1]
           newPixelX == Sub(Num(p[1]), ds.dragStart.x)
           newPixelY == Sub(Num(p[2]), ds.dragStart.y)
       IN  [sigs EXCEPT
              ![ds.dragIndex + 1].xPercent =
                 Add(sig.xPercent,
                     pixelsToPercent(newPixelX, Num(containerWidth))),
              ![ds.dragIndex + 1].yPercent =
                 Add(sig.yPercent,
                     pixelsToPercent(newPixelY, Num(containerHeight)))]

\* onDrag returns without touching the list.
onDragSkips(ds) == ~ds.isDragging \/ ds.dragIndex < 0 \/ ~hasContainer

\* onDrag dereferences signatures[dragIndex], which is undefined: TypeError.
onDragThrows(ds, sigs) == ~onDragSkips(ds) /\ ds.dragIndex >= Len(sigs)

\* A drag handler that keeps the origin within 0..100 percent.
Clamp(v) == IF Less(v, Num(0)) THEN Num(0) ELSE IF Less(Num(100), v) THEN Num(100) ELSE v

onDragClamped(ds, p, sigs) ==
  IF onDragSkips(ds) \/ onDragThrows(ds, sigs) THEN sigs
  ELSE [sigs EXCEPT
          ![ds.dragIndex + 1].xPercent =
             Clamp(pixelsToPercent(Sub(Num(p[1]), ds.dragStart.x), Num(containerWidth))),
          ![ds.dragIndex + 1].yPercent =
             Clamp(pixelsToPercent(Sub(Num(p[2]), ds.dragStart.y), Num(containerHeight)))]

\* onDrag(e, signatures) with the pointer at p: the list afterwards.
onDrag(ds, p, sigs) ==
  IF onDragSkips(ds) \/ onDragThrows(ds, sigs) THEN sigs
  ELSE LET newPixelX == Sub(Num(p[1]), ds.dragStart.x)
           newPixelY == Sub(Num(p[2]), ds.dragStart.y)
       IN  [sigs EXCEPT
              ![ds.dragIndex + 1].xPercent =
                 pixelsToPercent(newPixelX, Num(containerWidth)),
              ![ds.dragIndex + 1].yPercent =
                 pixelsToPercent(newPixelY, Num(containerHeight))]

onResizeSkips(ds) == ~ds.isResizing \/ ds.dragIndex < 0 \/ ~hasContainer

onResizeThrows(ds, sigs) == ~onResizeSkips(ds) /\ ds.dragIndex >= Len(sigs)

\* onResize(e, signatures) with the pointer at p: the list afterwards.
onResize(ds, p, sigs) ==
  IF onResizeSkips(ds) \/ onResizeThrows(ds, sigs) THEN sigs
  ELSE LET newPixelX == Sub(Num(p[1]), ds.dragStart.x)
           newPixelY == Sub(Num(p[2]), ds.dragStart.y)
           newWidth == MathMax(Num(50), Add(ds.resizeStart.width, newPixelX))
           newHeight == MathMax(Num(25), Add(ds.resizeStart.height, newPixelY))
       IN  [sigs EXCEPT
              ![ds.dragIndex + 1].widthPercent =
                 pixelsToPercent(newWidth, Num(containerWidth)),
              ![ds.dragIndex + 1].heightPercent =
                 pixelsToPercent(newHeight, Num(containerHeight))]

\* stopDrag()
stopDrag(ds) ==
  [ds EXCEPT !.isDragging = FALSE, !.isResizing = FALSE, !.dragIndex = -1]

-----------------------------------------------------------------------------
(* SignatureManager *)

NoManager ==
  [exists |-> FALSE, signatureImage |-> "null",
   containerWidth |-> 0, containerHeight |-> 0]

\* new SignatureManager(canvas) followed by setContainerDimensions(w, h)
NewManager(w, h) ==
  [exists |-> TRUE, signatureImage |-> "null",
   containerWidth |-> w, containerHeight |-> h]

\* SignatureManager.addSignatureToPage(currentPage): <<>> stands for null,
\* otherwise the one-element list holding the new overlay.
smAddSignatureToPage(sm, page) ==
  IF sm.signatureImage = "null" \/ sm.containerWidth = 0 \/ sm.containerHeight = 0
  THEN <<>>
  ELSE << [image |-> sm.signatureImage,
           xPercent |-> Num(20), yPercent |-> Num(15),
           widthPercent |-> Num(10), heightPercent |-> Num(10),
           page |-> page, id |-> 0, seq |-> 0] >>

\* The rectangle embedSignatures passes to page.drawImage for sig on a page
\* of size pageSize = <<width, height>>.
embedRect(sig, pageSize) ==
  [x |-> Mul(Div(sig.xPercent, Num(100)), Num(pageSize[1])),
   y |-> Mul(Div(sig.yPercent, Num(100)), Num(pageSize[2])),
   width |-> Mul(Div(sig.widthPercent, Num(100)), Num(pageSize[1])),
   height |-> Mul(Div(sig.heightPercent, Num(100)), Num(pageSize[2]))]

\* The loop without "if (!page) continue": page.getSize() on undefined
\* raises a TypeError.
RECURSIVE embedLoopNoPageCheck(_, _, _)
embedLoopNoPageCheck(arr, i, pages) ==
  IF i > Len(arr) THEN [kind |-> "done", i |-> i, rect |-> Origin0]
  ELSE LET sig == arr[i] IN
       IF sig.page < 0 \/ sig.page >= Len(pages)
         THEN [kind |-> "throw", i |-> i, rect |-> Origin0]
       ELSE IF sig.image = "notImage"
         THEN embedLoopNoPageCheck(arr, i + 1, pages)
       ELSE IF sig.image = "badBase64"
         THEN [kind |-> "throw", i |-> i, rect |-> Origin0]
       ELSE [kind |-> "await", i |-> i,
             rect |-> embedRect(sig, pages[sig.page + 1])]

\* embedSignatures' loop over arr from element i (1-based) up to its next
\* suspension: "await" (embedPng/embedJpg called for element i with the
\* rectangle already computed), "throw" (atob raised, outside the try) or
\* "done" (loop finished).
RECURSIVE embedLoop(_, _, _)
embedLoop(arr, i, pages) ==
  IF i > Len(arr) THEN [kind |-> "done", i |-> i, rect |-> Origin0]
  ELSE LET sig == arr[i] IN
       IF sig.page < 0 \/ sig.page >= Len(pages)
         THEN embedLoop(arr, i + 1, pages)
       ELSE IF sig.image = "notImage"
         THEN embedLoop(arr, i + 1, pages)
       ELSE IF sig.image = "badBase64"
         THEN [kind |-> "throw", i |-> i, rect |-> Origin0]
       ELSE [kind |-> "await", i |-> i,
             rect |-> embedRect(sig, pages[sig.page + 1])]

\* Whether pdfDoc.embedPng / embedJpg accepts the decoded bytes.
embedderAccepts(image) == image \in {"png", "jpeg"}

-----------------------------------------------------------------------------
(* Field geometry mapper (routes/+page.svelte) *)

\* The properties of the bounds object getFieldBounds returns.
BoundsKeys == {"x", "y", "width", "height"}

\* hasFieldOnPage(field, pageNum), for a field that has bounds:
\* fieldPage = field.bounds.page ?? 0.  A field record holds the properties
\* of its bounds and, apart from them, the pageIndices of the field.
hasFieldOnPage(field, pageNum) ==
  LET fieldPage == IF "page" \in BoundsKeys THEN field.page ELSE 0
  IN  fieldPage = pageNum

\* A mapper that scales the rectangle without flipping its y.
getFieldBoundsUnflipped(field, pageNum, pageDims) ==
  IF ~hasFieldOnPage(field, pageNum) THEN "null"
  ELSE IF pageNum < 0 \/ pageNum >= Len(pageDims) THEN "null"
  ELSE LET pageDim == pageDims[pageNum + 1]
       IN  [xPercent |-> Mul(Div(field.x, Num(pageDim[1])), Num(100)),
            yPercent |-> Mul(Div(field.y, Num(pageDim[2])), Num(100)),
            widthPercent |-> Mul(Div(field.width, Num(pageDim[1])), Num(100)),
            heightPercent |-> Mul(Div(field.height, Num(pageDim[2])), Num(100))]

\* getFieldBoundsForPage(field, pageNum) with pdfPageDimensions = pageDims:
\* "null", or the percentages of the field's rectangle, top-left based.
getFieldBoundsForPage(field, pageNum, pageDims) ==
  IF ~hasFieldOnPage(field, pageNum) THEN "null"
  ELSE IF pageNum < 0 \/ pageNum >= Len(pageDims) THEN "null"
  ELSE LET pageDim == pageDims[pageNum + 1]
           adjustedY == Sub(Sub(Num(pageDim[2]), field.y), field.height)
       IN  [xPercent |-> Mul(Div(field.x, Num(pageDim[1])), Num(100)),
            yPercent |-> Mul(Div(adjustedY, Num(pageDim[2])), Num(100)),
            widthPercent |-> Mul(Div(field.width, Num(pageDim[1])), Num(100)),
            heightPercent |-> Mul(Div(field.height, Num(pageDim[2])), Num(100))]

\* stage: "none" (no field), "field" (field and pageNum chosen), "null"
\* (the mapper returned null), "mapped" (bounds set), "drawn" (drawn set).
NoFieldView ==
  [stage |-> "none", field |-> "none", pageNum |-> 0, bounds |-> "none",
   drawn |-> "none"]

\* Rectangles, in page units with a bottom-left origin, that lie within both
\* pages of document B, and one near the top of its first page.
FieldRects ==
  { [x |-> Num(x), y |-> Num(y), width |-> Num(w), height |-> Num(h),
     pageIndices |-> <<pg>>] :
      x \in {0, 60, 300}, y \in {0, 60, 300}, w \in {60, 120}, h \in {60, 120},
      pg \in {0, 1} }
  \cup { [x |-> Num(60), y |-> Num(700), width |-> Num(120), height |-> Num(40),
          pageIndices |-> <<0>>] }

-----------------------------------------------------------------------------
(* Overlay objects and aliasing *)

\* Overlays are objects shared between the store's current array and an
\* array a running embed pass still iterates.  id is the object identity;
\* while no pass is running the ids are just the positions.
Renumber(sigs) == [k \in 1..Len(sigs) |-> [sigs[k] EXCEPT !.id = k]]

UsedIds(sigs, arr) ==
  {sigs[k].id : k \in 1..Len(sigs)} \cup {arr[k].id : k \in 1..Len(arr)}

\* seq orders the overlays of the store by the time they were added; only
\* the order matters, so the values are kept as ranks 1..n.
Rerank(sigs) ==
  [k \in 1..Len(sigs) |->
     [sigs[k] EXCEPT !.seq =
        1 + Cardinality({j \in 1..Len(sigs) : sigs[j].seq < sigs[k].seq})]]

FreshId(sigs, arr) ==
  CHOOSE i \in 1..(Len(sigs) + Len(arr) + 1) : i \notin UsedIds(sigs, arr)

\* The array of the running pass after the store's objects changed to sigs.
Alias(arr, sigs) ==
  [k \in 1..Len(arr) |->
     IF \E j \in 1..Len(sigs) : sigs[j].id = arr[k].id
     THEN sigs[CHOOSE j \in 1..Len(sigs) : sigs[j].id = arr[k].id]
     ELSE arr[k]]

-----------------------------------------------------------------------------
(* PdfEditorState *)

NoPoint == <<0, 0>>

\* ev records the last event only as far as the properties below need it:
\* that it was a pointer-down, or an event for which no listener exists.
Event(kind, index, p) ==
  IF kind \in {"downOverlay", "downHandle", "move", "navigate", "mouseleave",
               "touchcancel", "downloadFailed", "downloadInvalid",
               "downloadStart", "init"}
  THEN kind ELSE "other"

\* filled: the form data written into the document of the call.
DlIdle ==
  [pc |-> "idle", doc |-> "none", arr |-> <<>>, i |-> 0,
   rect |-> Origin0, from |-> "none", draws |-> <<>>, filled |-> <<>>]

\* PdfEditorState._pdfDoc: initialised to null and assigned nowhere.
pdfDocIsNull == TRUE

pageCount == IF pdfFile = "none" THEN 0 ELSE Len(PageSizes(pdfFile))

formFields == IF pdfFile = "none" THEN 0 ELSE NumFields(pdfFile)

\* A per-page view that forgets the page filter.
currentSignaturesUnfiltered == signatures

\* get currentSignatures(): the overlays of the viewed page, in store order.
currentSignatures == SelectSeq(signatures, LAMBDA sig : sig.page = currentPage)

\* The indices the {#each editor.currentSignatures as sig, index} block hands
\* to the overlay handlers.
ShownIndices == 0..(Len(currentSignatures) - 1)

Mounted == pdfFile # "none"

\* The container wraps <img class="w-full h-auto">: when the page image
\* changes from a page of size from to one of size to, the box keeps its
\* width and takes the height of the new image (rounded to whole pixels).
imageBox(size, from, to) ==
  IF from = to THEN size
  ELSE <<size[1], (2 * size[1] * to[2] + to[1]) \div (2 * to[1])>>

InitStore ==
  /\ pdfFile = "none"
  /\ loading = {}
  /\ currentPage = 0
  /\ signatures = <<>>
  /\ formData = <<>>
  /\ signatureMode = "draw"
  /\ sigManager = NoManager
  /\ hasContainer = FALSE
  /\ containerWidth = 0
  /\ containerHeight = 0
  /\ dragState = DragStateInit
  /\ dl = DlIdle
  /\ ev = Event("init", -1, NoPoint)
  /\ gestures = 0
  /\ element = <<0, 0>>

Init == InitStore /\ fieldView = NoFieldView /\ roundTrip = NoRoundTrip

-----------------------------------------------------------------------------
(* Store updates *)

\* The store becomes newSigs; the array of a running embed pass keeps
\* referring to the same overlay objects.
SetSignatures(newSigs) ==
  LET stored == Rerank(IF dl.pc = "idle" THEN Renumber(newSigs) ELSE newSigs)
  IN  /\ signatures' = stored
      /\ dl' = [dl EXCEPT !.arr = Alias(dl.arr, stored)]

\* Resize moves are explored up to MaxPercent of the container.
WithinCap(sigs) ==
  \A k \in 1..Len(sigs) :
    /\ IsFinite(sigs[k].widthPercent) => ~Less(Num(MaxPercent), sigs[k].widthPercent)
    /\ IsFinite(sigs[k].heightPercent) => ~Less(Num(MaxPercent), sigs[k].heightPercent)

-----------------------------------------------------------------------------
(* Loading, mounting and reset *)

\* PdfUploader hands a file to loadPDF, which suspends at pdfLoader.loadPDF.
LoadPDFStart(doc) ==
  /\ pdfFile = "none"
  /\ doc \notin loading
  /\ loading' = loading \cup {doc}
  /\ ev' = Event("loadStart", -1, NoPoint)
  /\ UNCHANGED <<element, roundTrip, fieldView, gestures, pdfFile, currentPage, signatures, formData, signatureMode,
                 sigManager, hasContainer, containerWidth, containerHeight,
                 dragState, dl>>

\* loadPDF resumes: state update and form detection.  When no document was
\* shown before, PdfWorkspace and SignaturePad mount: initPdfContainer on a
\* new element of size s, then (draw mode) initSignatureManager.
LoadPDFDone(doc, s) ==
  /\ doc \in loading
  /\ loading' = loading \ {doc}
  /\ pdfFile' = doc
  /\ currentPage' = 0
  /\ formData' = [f \in 1..NumFields(doc) |-> ""]
  /\ IF pdfFile = "none"
     THEN /\ hasContainer' = TRUE
          /\ containerWidth' = s[1]
          /\ containerHeight' = s[2]
          /\ element' = s
          /\ sigManager' =
               IF signatureMode = "draw" THEN NewManager(s[1], s[2])
               ELSE IF sigManager.exists
                 THEN [sigManager EXCEPT !.containerWidth = s[1],
                                         !.containerHeight = s[2]]
               ELSE sigManager
     ELSE /\ s = <<containerWidth, containerHeight>>
          /\ element' = imageBox(element, PageSizes(pdfFile)[currentPage + 1],
                                 PageSizes(doc)[1])
          /\ UNCHANGED <<hasContainer, containerWidth, containerHeight, sigManager>>
  /\ ev' = Event("loadDone", -1, NoPoint)
  /\ UNCHANGED <<signatures, signatureMode, dragState, dl, gestures, fieldView,
                 roundTrip>>

\* reset(), after which the workspace components unmount.
Reset ==
  /\ Mounted
  /\ pdfFile' = "none"
  /\ currentPage' = 0
  /\ formData' = <<>>
  /\ sigManager' = IF sigManager.exists
                   THEN [sigManager EXCEPT !.signatureImage = "null"]
                   ELSE sigManager
  /\ SetSignatures(<<>>)
  /\ element' = <<0, 0>>
  /\ ev' = Event("reset", -1, NoPoint)
  /\ UNCHANGED <<roundTrip, fieldView, gestures, loading, signatureMode, hasContainer, containerWidth,
                 containerHeight, dragState>>

\* The container's box becomes s (0 x 0 once the element is detached) and
\* the ResizeObserver callback runs: updateContainerDimensions() reads it.
ResizeObserved(s) ==
  /\ hasContainer
  /\ s # <<containerWidth, containerHeight>>
  /\ Mounted \/ s = <<0, 0>>
  /\ containerWidth' = s[1]
  /\ containerHeight' = s[2]
  /\ element' = s
  /\ ev' = Event("resizeObserved", -1, NoPoint)
  /\ UNCHANGED <<roundTrip, fieldView, gestures, pdfFile, loading, currentPage, signatures, formData,
                 signatureMode, sigManager, hasContainer, dragState, dl>>

\* FormField input: handleFieldValueChange(name, value)
FieldValueChange(f, v) ==
  /\ Mounted
  /\ f \in 1..formFields
  /\ v # formData[f]
  /\ formData' = [formData EXCEPT ![f] = v]
  /\ ev' = Event("field", -1, NoPoint)
  /\ UNCHANGED <<element, roundTrip, fieldView, gestures, pdfFile, loading, currentPage, signatures, signatureMode,
                 sigManager, hasContainer, containerWidth, containerHeight,
                 dragState, dl>>

-----------------------------------------------------------------------------
(* Signature pad *)

\* Draw/Upload tabs.  Entering draw mode mounts the canvas, whose action
\* calls initSignatureManager: a new SignatureManager with the dimensions
\* DragDropManager has cached.
SetMode(m) ==
  /\ Mounted
  /\ m # signatureMode
  /\ signatureMode' = m
  /\ sigManager' = IF m = "draw" THEN NewManager(containerWidth, containerHeight)
                   ELSE sigManager
  /\ ev' = Event("mode", -1, NoPoint)
  /\ UNCHANGED <<element, roundTrip, fieldView, gestures, pdfFile, loading, currentPage, signatures, formData,
                 hasContainer, containerWidth, containerHeight, dragState, dl>>

\* saveDrawnSignature(), clearSignature(), handleSignatureUpload(event)
SetImage(kind, image) ==
  /\ Mounted
  /\ sigManager.exists
  /\ \/ kind = "save" /\ signatureMode = "draw" /\ image = "png"
     \/ kind = "clear" /\ signatureMode = "draw" /\ image = "null"
     \/ kind = "upload" /\ signatureMode = "upload" /\ image \in UploadKinds
  /\ image # sigManager.signatureImage
  /\ sigManager' = [sigManager EXCEPT !.signatureImage = image]
  /\ ev' = Event(kind, -1, NoPoint)
  /\ UNCHANGED <<element, roundTrip, fieldView, gestures, pdfFile, loading, currentPage, signatures, formData,
                 signatureMode, hasContainer, containerWidth, containerHeight,
                 dragState, dl>>

\* PdfEditorState.addSignatureToPage() on manager sm.
AppendNew(sm) ==
  LET new == smAddSignatureToPage(sm, currentPage)
      withId == [k \in 1..Len(new) |->
                   [new[k] EXCEPT !.id = FreshId(signatures, dl.arr),
                                  !.seq = Len(signatures) + 1]]
  IN  SetSignatures(signatures \o withId)

\* "Add Signature to Page"
AddSignatureToPage ==
  /\ Mounted
  /\ sigManager.exists
  /\ AppendNew(sigManager)
  /\ ev' = Event("add", -1, NoPoint)
  /\ UNCHANGED <<element, roundTrip, fieldView, gestures, pdfFile, loading, currentPage, formData, signatureMode,
                 sigManager, hasContainer, containerWidth, containerHeight,
                 dragState>>

\* addSignatureFromImage(image): setSignatureImage, then addSignatureToPage.
AddSignatureFromImage(image) ==
  /\ Mounted
  /\ sigManager.exists
  /\ sigManager' = [sigManager EXCEPT !.signatureImage = image]
  /\ AppendNew(sigManager')
  /\ ev' = Event("addFromImage", -1, NoPoint)
  /\ UNCHANGED <<element, roundTrip, fieldView, gestures, pdfFile, loading, currentPage, formData, signatureMode,
                 hasContainer, containerWidth, containerHeight, dragState>>

\* removeSignature(index): signatures.filter((_, i) => i !== index)
removeSignature(sigs, index) ==
  IF index < 0 \/ index >= Len(sigs) THEN sigs
  ELSE [k \in 1..(Len(sigs) - 1) |-> IF k <= index THEN sigs[k] ELSE sigs[k + 1]]

\* The remove button, or Delete/Backspace on a focused overlay: both call
\* removeSignature with the overlay's index in the {#each} block.
Remove(index) ==
  /\ Mounted
  /\ index \in ShownIndices
  /\ SetSignatures(removeSignature(signatures, index))
  /\ ev' = Event("remove", index, NoPoint)
  /\ UNCHANGED <<element, roundTrip, fieldView, gestures, pdfFile, loading, currentPage, formData, signatureMode,
                 sigManager, hasContainer, containerWidth, containerHeight,
                 dragState>>

\* Previous / Next
Navigate(delta) ==
  /\ Mounted
  /\ pageCount > 1
  /\ currentPage + delta \in 0..(pageCount - 1)
  /\ currentPage' = currentPage + delta
  /\ element' = imageBox(element, PageSizes(pdfFile)[currentPage + 1],
                         PageSizes(pdfFile)[currentPage + delta + 1])
  /\ ev' = Event("navigate", -1, NoPoint)
  /\ UNCHANGED <<roundTrip, fieldView, gestures, pdfFile, loading, signatures, formData, signatureMode,
                 sigManager, hasContainer, containerWidth, containerHeight,
                 dragState, dl>>

-----------------------------------------------------------------------------
(* Pointer events of PdfWorkspace *)

\* The overlay's left/top style, in pixels: percentToPixels of the stored
\* percentages with getContainerDimensions().
PixelOrigin(sig) ==
  <<percentToPixels(sig.xPercent, Num(containerWidth)),
    percentToPixels(sig.yPercent, Num(containerHeight))>>

\* The overlay's width/height style, in pixels.
PixelSize(sig) ==
  <<percentToPixels(sig.widthPercent, Num(containerWidth)),
    percentToPixels(sig.heightPercent, Num(containerHeight))>>

\* lo <= v < hi on JavaScript numbers (false when one of them is NaN).
Within(v, lo, hi) == (v = lo \/ Less(lo, v)) /\ Less(v, hi) /\ ~IsNaN(v)

\* Pointer p lies in the box of overlay sig.
InOverlay(sig, p) ==
  LET o == PixelOrigin(sig)
      size == PixelSize(sig)
  IN  /\ Within(Num(p[1]), o[1], Add(o[1], size[1]))
      /\ Within(Num(p[2]), o[2], Add(o[2], size[2]))

\* Pointer p lies on the resize handle of sig: a HandleSize square in the
\* bottom-right corner of the box.
InHandle(sig, p) ==
  LET o == PixelOrigin(sig)
      size == PixelSize(sig)
      right == Add(o[1], size[1])
      bottom == Add(o[2], size[2])
  IN  /\ InOverlay(sig, p)
      /\ Within(Num(p[1]), Sub(right, Num(HandleSize)), right)
      /\ Within(Num(p[2]), Sub(bottom, Num(HandleSize)), bottom)

\* The overlay shown at index receives a pointer-down at p: p is in its box
\* and in the box of no overlay rendered after it.
Receives(index, p) ==
  /\ index \in ShownIndices
  /\ InOverlay(currentSignatures[index + 1], p)
  /\ \A later \in ShownIndices :
       later > index => ~InOverlay(currentSignatures[later + 1], p)

\* mousedown / touchstart on the overlay shown at index: startDrag.
PointerDownOverlay(index, p) ==
  /\ Mounted
  /\ Receives(index, p)
  /\ ~InHandle(currentSignatures[index + 1], p)
  /\ dragState' = startDrag(dragState, p, index)
  /\ ev' = Event("downOverlay", index, p)
  /\ gestures' = gestures + 1
  /\ UNCHANGED <<element, roundTrip, fieldView, pdfFile, loading, currentPage, signatures, formData,
                 signatureMode, sigManager, hasContainer, containerWidth,
                 containerHeight, dl>>

\* mousedown / touchstart on the resize handle of the overlay shown at
\* index: the handle's handler calls startResize, then the event bubbles to
\* the enclosing overlay, whose handler calls startDrag.
PointerDownHandle(index, p) ==
  /\ Mounted
  /\ Receives(index, p)
  /\ InHandle(currentSignatures[index + 1], p)
  /\ dragState' = startDrag(startResize(dragState, p, index, signatures), p, index)
  /\ ev' = Event("downHandle", index, p)
  /\ gestures' = gestures + 1
  /\ UNCHANGED <<element, roundTrip, fieldView, pdfFile, loading, currentPage, signatures, formData,
                 signatureMode, sigManager, hasContainer, containerWidth,
                 containerHeight, dl>>

\* window mousemove / touchmove: handleDrag(e); handleResize(e).  A TypeError
\* raised by the first call ends the listener.
PointerMoveTo(p) ==
  /\ Mounted
  /\ LET afterDrag == onDrag(dragState, p, signatures)
         dragThrew == onDragThrows(dragState, signatures)
         after == IF dragThrew THEN signatures
                  ELSE onResize(dragState, p, afterDrag)
     IN  /\ SetSignatures(after)
         /\ ev' = Event("move", -1, p)
  /\ UNCHANGED <<element, roundTrip, fieldView, gestures, pdfFile, loading, currentPage, formData, signatureMode,
                 sigManager, hasContainer, containerWidth, containerHeight,
                 dragState>>

\* The same handler, explored while the sizes stay within MaxPercent.
PointerMove(p) ==
  /\ PointerMoveTo(p)
  /\ WithinCap(signatures')

\* window mouseup / touchend: stopDrag()
PointerUp(kind) ==
  /\ Mounted
  /\ dragState' = stopDrag(dragState)
  /\ ev' = Event(kind, -1, NoPoint)
  /\ UNCHANGED <<element, roundTrip, fieldView, gestures, pdfFile, loading, currentPage, signatures, formData,
                 signatureMode, sigManager, hasContainer, containerWidth,
                 containerHeight, dl>>

\* The pointer leaves the window, or the touch is cancelled: svelte:window
\* registers no listener for either event.
PointerLost(kind) ==
  /\ Mounted
  /\ ev' = Event(kind, -1, NoPoint)
  /\ UNCHANGED <<element, roundTrip, fieldView, gestures, pdfFile, loading, currentPage, signatures, formData,
                 signatureMode, sigManager, hasContainer, containerWidth,
                 containerHeight, dragState, dl>>

-----------------------------------------------------------------------------
(* downloadPDF *)

\* PDFFormService.validateField(field, value).valid, for string values (the
\* check of list fields applies to array values only).
validateField(field, value) ==
  IF field.required /\ value = "" THEN FALSE
  ELSE IF field.type = "text" /\ field.maxLength # 0 /\ value # ""
          /\ StrLen(value) > field.maxLength THEN FALSE
  ELSE IF field.type \in {"dropdown", "radio"} /\ value # ""
          /\ value \notin field.options THEN FALSE
  ELSE TRUE

\* A validateForm that stops at the first field.
validateFormFirstOnly ==
  formFields = 0 \/ validateField(FormFields(pdfFile)[1], formData[1])

\* FormFieldManager.validateForm(): validateField over every detected field.
validateForm ==
  \A f \in 1..formFields : validateField(FormFields(pdfFile)[f], formData[f])

\* State of the call after embedSignatures ran from element i of arr up to
\* its next suspension, with draws drawn on the document so far.  from keeps,
\* for the properties, the overlay as it was when rect was computed.
AfterEmbedLoop(arr, i, draws, doc) ==
  LET run == embedLoop(arr, i, PageSizes(doc)) IN
  IF run.kind = "await"
    THEN [pc |-> "embed", doc |-> doc, arr |-> arr, i |-> run.i,
          rect |-> run.rect, from |-> arr[run.i], draws |-> draws,
          filled |-> <<>>]
  ELSE IF run.kind = "throw"
    THEN [DlIdle EXCEPT !.pc = "failed"]
  ELSE [DlIdle EXCEPT !.pc = "save", !.doc = doc, !.draws = draws]

\* The call ended (pc is "idle" afterwards): no pass refers to the overlays.
Settle(next, kind) ==
  IF next.pc = "failed"
  THEN /\ dl' = DlIdle
       /\ signatures' = Renumber(signatures)
       /\ ev' = Event("downloadFailed", -1, NoPoint)
  ELSE /\ dl' = next
       /\ signatures' = signatures
       /\ ev' = Event(kind, -1, NoPoint)

\* The download button: downloadPDF() up to its first await.
DownloadStart ==
  /\ Mounted
  /\ dl.pc = "idle"
  /\ Len(signatures) > 0 \/ formFields > 0
  /\ IF formFields > 0 /\ ~validateForm
     THEN /\ ev' = Event("downloadInvalid", -1, NoPoint)
          /\ dl' = dl
     ELSE /\ ev' = Event("downloadStart", -1, NoPoint)
          /\ dl' = [DlIdle EXCEPT !.pc = "load", !.doc = pdfFile]
  /\ UNCHANGED <<element, roundTrip, fieldView, gestures, pdfFile, loading, currentPage, signatures, formData,
                 signatureMode, sigManager, hasContainer, containerWidth,
                 containerHeight, dragState>>

\* pdfLoader.loadPDF resolved: the fill step (skipped while this.pdfDoc is
\* null; its argument is this.pdfDoc, never loadedPDF.pdfDoc, so nothing is
\* written into the document of the call), then
\* embedSignatures(pdfDoc, this.signatures) up to its first await.
DownloadLoaded ==
  /\ dl.pc = "load"
  /\ LET fills == formFields > 0 /\ ~pdfDocIsNull
         next == IF sigManager.exists /\ Len(signatures) > 0
                 THEN AfterEmbedLoop(signatures, 1, <<>>, dl.doc)
                 ELSE [DlIdle EXCEPT !.pc = "save", !.doc = dl.doc]
     IN  /\ ~fills
         /\ Settle(next, "downloadLoaded")
  /\ UNCHANGED <<element, roundTrip, fieldView, gestures, pdfFile, loading, currentPage, formData, signatureMode,
                 sigManager, hasContainer, containerWidth, containerHeight,
                 dragState>>

\* embedPng / embedJpg settled for element dl.i: drawImage with the rectangle
\* computed before the await (or the catch, which skips the element), then
\* the loop goes on to its next suspension.
EmbedSettled ==
  /\ dl.pc = "embed"
  /\ LET sig == dl.arr[dl.i]
         draws == IF embedderAccepts(sig.image)
                  THEN Append(dl.draws, [page |-> sig.page, image |-> sig.image,
                                         rect |-> dl.rect, from |-> dl.from])
                  ELSE dl.draws
     IN  Settle(AfterEmbedLoop(dl.arr, dl.i + 1, draws, dl.doc), "embedSettled")
  /\ UNCHANGED <<element, roundTrip, fieldView, gestures, pdfFile, loading, currentPage, formData, signatureMode,
                 sigManager, hasContainer, containerWidth, containerHeight,
                 dragState>>

\* pdfDoc.save() resolved: the document is handed to the browser.
DownloadSaved ==
  /\ dl.pc = "save"
  /\ dl' = DlIdle
  /\ signatures' = Renumber(signatures)
  /\ ev' = Event("downloadSaved", -1, NoPoint)
  /\ UNCHANGED <<element, roundTrip, fieldView, gestures, pdfFile, loading, currentPage, formData, signatureMode,
                 sigManager, hasContainer, containerWidth, containerHeight,
                 dragState>>

-----------------------------------------------------------------------------

(* Field mapper followed by the embed geometry *)

\* The field's rectangle is converted for the page shown.
MapField ==
  /\ fieldView.stage = "field"
  /\ LET bounds == getFieldBoundsForPage(fieldView.field, fieldView.pageNum,
                                         PageSizes("B"))
         null == ~hasFieldOnPage(fieldView.field, fieldView.pageNum)
     IN  fieldView' = [fieldView EXCEPT !.bounds = bounds,
                         !.stage = IF null THEN "null" ELSE "mapped"]
  /\ UNCHANGED <<pdfFile, loading, currentPage, signatures, formData,
                 signatureMode, sigManager, hasContainer, containerWidth,
                 containerHeight, dragState, dl, ev, gestures, roundTrip,
                 element>>

\* An overlay with the mapped percentages on that page goes through the
\* geometry of embedSignatures.
EmbedMapped ==
  /\ fieldView.stage = "mapped"
  /\ fieldView' = [fieldView EXCEPT !.stage = "drawn", !.drawn =
                     embedRect(fieldView.bounds,
                               PageSizes("B")[fieldView.pageNum + 1])]
  /\ UNCHANGED <<pdfFile, loading, currentPage, signatures, formData,
                 signatureMode, sigManager, hasContainer, containerWidth,
                 containerHeight, dragState, dl, ev, gestures, roundTrip,
                 element>>

-----------------------------------------------------------------------------
(* percentToPixels followed by pixelsToPercent *)

ToPixels ==
  /\ roundTrip.stage = "percent"
  /\ roundTrip' = [roundTrip EXCEPT !.stage = "pixels", !.pixels =
                     percentToPixels64(F64FromInt(roundTrip.p), roundTrip.d)]
  /\ UNCHANGED <<pdfFile, loading, currentPage, signatures, formData,
                 signatureMode, sigManager, hasContainer, containerWidth,
                 containerHeight, dragState, dl, ev, gestures, fieldView,
                 element>>

BackToPercent ==
  /\ roundTrip.stage = "pixels"
  /\ roundTrip' = [roundTrip EXCEPT !.stage = "back", !.percent =
                     pixelsToPercent64(roundTrip.pixels, roundTrip.d)]
  /\ UNCHANGED <<pdfFile, loading, currentPage, signatures, formData,
                 signatureMode, sigManager, hasContainer, containerWidth,
                 containerHeight, dragState, dl, ev, gestures, fieldView,
                 element>>

-----------------------------------------------------------------------------

(* Specifications.  Each one lets the environment deliver a subset of the  *)
(* events, so that the reachable states can be enumerated.                 *)

\* An editing session on document A: signatures are drawn, placed, dragged,
\* resized and removed while the container is observed.
Next ==
  \/ LoadPDFStart("A")
  \/ \E s \in ContainerSizes : LoadPDFDone("A", s)
  \/ \E s \in ContainerSizes : ResizeObserved(s)
  \/ SetImage("save", "png")
  \/ Len(signatures) < MaxSigs /\ AddSignatureToPage
  \/ \E index \in 0..(MaxSigs - 1) : Remove(index)
  \/ \E index \in 0..(MaxSigs - 1), p \in Points :
       gestures < MaxGestures /\ PointerDownOverlay(index, p)
  \/ \E index \in 0..(MaxSigs - 1), p \in Points :
       gestures < MaxGestures /\ PointerDownHandle(index, p)
  \/ \E p \in Points : PointerMove(p)
  \/ \E kind \in {"mouseup", "touchend"} : PointerUp(kind)
  \/ \E kind \in {"mouseleave", "touchcancel"} : PointerLost(kind)

Spec == Init /\ [][Next]_vars

\* A commit session on the two-page document B: overlays with image data of
\* every kind are placed on both pages, one of them may be dragged, and the
\* document is downloaded.
NextCommit ==
  \/ LoadPDFStart("B")
  \/ LoadPDFDone("B", <<500, 250>>)
  \/ \E image \in ImageKinds :
       Len(signatures) < MaxCommitSigs /\ AddSignatureFromImage(image)
  \/ \E delta \in {-1, 1} : Navigate(delta)
  \/ \E p \in Points : gestures < 1 /\ dl.pc = "idle" /\ PointerDownOverlay(0, p)
  \/ \E p \in Points : dl.pc = "idle" /\ PointerMove(p)
  \/ PointerUp("mouseup")
  \/ DownloadStart
  \/ DownloadLoaded
  \/ EmbedSettled
  \/ DownloadSaved

SpecCommit == Init /\ [][NextCommit]_vars

\* A commit session in which a second upload may replace the document: both
\* loads can be in flight, overlays are placed on the pages of whichever
\* document is shown, and the document shown is downloaded.
NextReplaced ==
  \/ \E doc \in {"A", "B"} : LoadPDFStart(doc)
  \/ \E doc \in {"A", "B"} : LoadPDFDone(doc, <<500, 250>>)
  \/ \E image \in ImageKinds :
       Len(signatures) < MaxCommitSigs /\ AddSignatureFromImage(image)
  \/ \E delta \in {-1, 1} : Navigate(delta)
  \/ DownloadStart
  \/ DownloadLoaded
  \/ EmbedSettled
  \/ DownloadSaved

SpecReplaced == Init /\ [][NextReplaced]_vars

\* An edit session whose container changes between two non-empty sizes, also
\* while a drag or resize is in progress.
NextResized ==
  \/ LoadPDFStart("A")
  \/ LoadPDFDone("A", <<500, 250>>)
  \/ \E s \in ResizedSizes : ResizeObserved(s)
  \/ SetImage("save", "png")
  \/ Len(signatures) < MaxSigs /\ AddSignatureToPage
  \/ \E index \in 0..(MaxSigs - 1), p \in Points :
       gestures < MaxGestures /\ PointerDownOverlay(index, p)
  \/ \E index \in 0..(MaxSigs - 1), p \in Points :
       gestures < MaxGestures /\ PointerDownHandle(index, p)
  \/ \E p \in Points : PointerMove(p)
  \/ PointerUp("mouseup")

SpecResized == Init /\ [][NextResized]_vars

\* A commit session in which the overlay handlers stay live while the
\* document is being produced: pointer events, adds and removes may arrive at
\* each suspension point of downloadPDF.
NextInterleaved ==
  \/ LoadPDFStart("B")
  \/ LoadPDFDone("B", <<500, 250>>)
  \/ Len(signatures) < MaxSigs /\ AddSignatureFromImage("png")
  \/ \E index \in 0..(MaxSigs - 1) : Remove(index)
  \/ \E p \in Points : gestures < 1 /\ PointerDownOverlay(0, p)
  \/ \E p \in Points : PointerMove(p)
  \/ PointerUp("mouseup")
  \/ DownloadStart
  \/ DownloadLoaded
  \/ EmbedSettled
  \/ DownloadSaved

SpecInterleaved == Init /\ [][NextInterleaved]_vars

\* A commit session whose container may shrink: overlays are added and
\* resized, the container changes size, and the document is downloaded.
NextShrunk ==
  \/ LoadPDFStart("A")
  \/ LoadPDFDone("A", <<500, 250>>)
  \/ \E s \in ShrunkSizes : ResizeObserved(s)
  \/ Len(signatures) < MaxSigs /\ AddSignatureFromImage("png")
  \/ \E index \in 0..(MaxSigs - 1), p \in Points :
       gestures < 1 /\ dl.pc = "idle" /\ PointerDownHandle(index, p)
  \/ \E p \in Points : dl.pc = "idle" /\ PointerMove(p)
  \/ PointerUp("mouseup")
  \/ DownloadStart
  \/ DownloadLoaded
  \/ EmbedSettled
  \/ DownloadSaved

SpecShrunk == Init /\ [][NextShrunk]_vars

\* An edit session on the two-page document B that follows the container's
\* box: pages are turned, the observer callback runs for the box as it is,
\* and the workspace is torn down by reset.
NextTracker ==
  \/ LoadPDFStart("B")
  \/ LoadPDFDone("B", <<500, 250>>)
  \/ \E delta \in {-1, 1} : Navigate(delta)
  \/ ResizeObserved(element)
  \/ Reset
  \/ SetImage("save", "png")
  \/ Len(signatures) < MaxSigs /\ AddSignatureToPage
  \/ \E index \in 0..(MaxSigs - 1), p \in Points :
       gestures < MaxGestures /\ PointerDownOverlay(index, p)
  \/ \E index \in 0..(MaxSigs - 1), p \in Points :
       gestures < MaxGestures /\ PointerDownHandle(index, p)
  \/ \E p \in Points : PointerMove(p)
  \/ PointerUp("mouseup")

SpecTracker == Init /\ [][NextTracker]_vars

\* The field mapper composed with the embed geometry, for every field
\* rectangle and page number of document B.
\* Drags and resizes with the pointer anywhere in the window.
NextUnclamped ==
  \/ LoadPDFStart("A")
  \/ \E s \in ResizedSizes : LoadPDFDone("A", s)
  \/ \E s \in ResizedSizes : ResizeObserved(s)
  \/ Len(signatures) < MaxSigs /\ AddSignatureFromImage("png")
  \/ \E index \in 0..(MaxSigs - 1), p \in Points :
       gestures < MaxGestures /\ PointerDownOverlay(index, p)
  \/ \E index \in 0..(MaxSigs - 1), p \in Points :
       gestures < MaxGestures /\ PointerDownHandle(index, p)
  \/ \E p \in Points \cup FarPoints : PointerMoveTo(p)
  \/ PointerUp("mouseup")

SpecUnclamped == Init /\ [][NextUnclamped]_vars

\* A session on document C: the form is edited, overlays are placed and the
\* document is downloaded.
NextForm ==
  \/ LoadPDFStart("C")
  \/ LoadPDFDone("C", <<500, 250>>)
  \/ \E f \in 1..NumFields("C"), v \in FieldValues : FieldValueChange(f, v)
  \/ Len(signatures) < MaxSigs /\ AddSignatureFromImage("png")
  \/ \E index \in 0..(MaxSigs - 1) : Remove(index)
  \/ Reset
  \/ DownloadStart
  \/ DownloadLoaded
  \/ EmbedSettled
  \/ DownloadSaved

SpecForm == Init /\ [][NextForm]_vars

InitMapper ==
  /\ InitStore
  /\ roundTrip = NoRoundTrip
  /\ \E field \in FieldRects, pageNum \in {0, 1} :
       fieldView = [NoFieldView EXCEPT !.stage = "field", !.field = field,
                                       !.pageNum = pageNum]

NextMapper ==
  \/ MapField
  \/ EmbedMapped

SpecMapper == InitMapper /\ [][NextMapper]_vars

\* A session over several documents and pages: the one-page document A and
\* the two-page document B are loaded (possibly both at once, the second
\* load resolving later), overlays are added on the pages, manipulated and
\* removed, and the editor is reset.
NextPages ==
  \/ \E doc \in {"A", "B"} : LoadPDFStart(doc)
  \/ \E doc \in {"A", "B"} : LoadPDFDone(doc, <<500, 250>>)
  \/ Reset
  \/ SetImage("save", "png")
  \/ Len(signatures) < MaxSigs /\ AddSignatureToPage
  \/ \E index \in 0..(MaxSigs - 1) : Remove(index)
  \/ \E delta \in {-1, 1} : Navigate(delta)
  \/ \E index \in 0..(MaxSigs - 1), p \in Points :
       gestures < MaxGestures /\ PointerDownOverlay(index, p)
  \/ \E index \in 0..(MaxSigs - 1), p \in Points :
       gestures < MaxGestures /\ PointerDownHandle(index, p)
  \/ \E p \in Points : PointerMove(p)
  \/ PointerUp("mouseup")

SpecPages == Init /\ [][NextPages]_vars

\* The two conversions composed, for every whole percentage in [0, 100]
\* and every dimension of Dimensions.
InitRoundTrip ==
  /\ InitStore
  /\ fieldView = NoFieldView
  /\ \E p \in 0..100, d \in Dimensions :
       roundTrip = [NoRoundTrip EXCEPT !.stage = "percent", !.p = p, !.d = d]

NextRoundTrip ==
  \/ ToPixels
  \/ BackToPercent

SpecRoundTrip == InitRoundTrip /\ [][NextRoundTrip]_vars

-----------------------------------------------------------------------------
(* Properties *)

Active == dragState.isDragging \/ dragState.isResizing

IdleState(ds) == ~ds.isDragging /\ ~ds.isResizing /\ ds.dragIndex = -1

\* a >= b on JavaScript numbers (false when either is NaN).
AtLeast(a, b) == ~IsNaN(a) /\ ~IsNaN(b) /\ (a = b \/ Less(b, a))

\* The drag or resize in progress has an overlay of the store as target.
HasTarget == dragState.dragIndex >= 0 /\ dragState.dragIndex < Len(signatures)

\* C1 -- drag delta invariance.  With a non-zero container size, the first
\* move after a startDrag at pointer (px, py), to pointer (px+dx, py+dy),
\* stores percentages that convert back to the pixel origin the overlay had
\* at the start, translated by (dx, dy).
C1_DragDeltaInvariance ==
  [][\A q \in Points :
       (/\ ev = "downOverlay"
        /\ dragState.isDragging /\ ~dragState.isResizing
        /\ HasTarget
        /\ containerWidth # 0 /\ containerHeight # 0
        /\ PointerMove(q))
       => LET i == dragState.dragIndex + 1
              dx == Sub(Num(q[1]), dragState.dragStart.x)
              dy == Sub(Num(q[2]), dragState.dragStart.y)
              before == PixelOrigin(signatures[i])
          IN  PixelOrigin(signatures'[i]) = <<Add(before[1], dx), Add(before[2], dy)>>
    ]_vars

\* C3 -- first operation wins.  While a drag or resize of overlay i is in
\* progress, a pointer-down on an overlay or resize handle with a different
\* index j leaves the mode, the target index and the recorded origins as
\* they are.
C3_FirstOperationWins ==
  [][\A j \in 0..(MaxSigs - 1), p \in Points :
       (/\ Active
        /\ j # dragState.dragIndex
        /\ PointerDownOverlay(j, p) \/ PointerDownHandle(j, p))
       => dragState' = dragState
    ]_vars

\* C4 -- exactly one mode.  In every reachable state isDragging and
\* isResizing are not both true, also after a pointer-down on a resize
\* handle.
C4_ExactlyOneMode == ~(dragState.isDragging /\ dragState.isResizing)

\* C5 -- every release-class event returns to Idle.  From Dragging or
\* Resizing, each of pointer-up, touch-end, pointer-leave and touch-cancel
\* leaves isDragging = false, isResizing = false and dragIndex = -1.
C5_ReleaseReturnsToIdle ==
  [][(/\ Active
      /\ \/ \E kind \in {"mouseup", "touchend"} : PointerUp(kind)
         \/ \E kind \in {"mouseleave", "touchcancel"} : PointerLost(kind))
     => IdleState(dragState')
    ]_vars

\* C6 -- removal of the target resets the state.  Removing the overlay that
\* is the target of the active drag or resize returns DragState to Idle.
C6_RemoveTargetResets ==
  [][\A j \in 0..(MaxSigs - 1) :
       (Active /\ dragState.dragIndex = j /\ Remove(j))
       => IdleState(dragState')
    ]_vars

\* C7 -- resize floor.  After every resize move, the target overlay's stored
\* width and height, converted to pixels with the current container
\* dimensions, are at least 50 px and 25 px.
C7_ResizeFloor ==
  [][\A q \in Points :
       (dragState.isResizing /\ HasTarget /\ PointerMove(q))
       => LET size == PixelSize(signatures'[dragState.dragIndex + 1])
          IN  AtLeast(size[1], Num(50)) /\ AtLeast(size[2], Num(25))
    ]_vars

\* C10 -- zero-dimension guard.  Every percentage stored in an overlay is
\* finite, also after drag and resize moves processed while the cached
\* container width or height is 0.
C10_StoredPercentsFinite ==
  \A k \in 1..Len(signatures) :
    /\ IsFinite(signatures[k].xPercent)
    /\ IsFinite(signatures[k].yPercent)
    /\ IsFinite(signatures[k].widthPercent)
    /\ IsFinite(signatures[k].heightPercent)

\* The rectangle the commit pass is to draw for overlay sig on a page of
\* size pageSize: percentages of the page, the top-left based y flipped to
\* the page's bottom-left origin.
FlippedRect(sig, pageSize) ==
  LET pageW == Num(pageSize[1])
      pageH == Num(pageSize[2])
      height == Mul(Div(sig.heightPercent, Num(100)), pageH)
  IN  [x |-> Mul(Div(sig.xPercent, Num(100)), pageW),
       y |-> Sub(Sub(pageH, Mul(Div(sig.yPercent, Num(100)), pageH)), height),
       width |-> Mul(Div(sig.widthPercent, Num(100)), pageW),
       height |-> height]

\* C2 -- embed rectangle.  Every rectangle the commit pass has drawn is the
\* overlay's percentage rectangle scaled to the size of the page at the
\* overlay's own page index, with y = pageH - yPercent/100*pageH - height.
C2_EmbedRectangle ==
  \A k \in 1..Len(dl.draws) :
    LET d == dl.draws[k]
    IN  d.rect = FlippedRect(d.from, PageSizes(dl.doc)[d.page + 1])

\* The list the running embed pass iterates.
PassList == IF dl.pc = "load" THEN signatures ELSE dl.arr

\* The overlays of list that have valid image data and a resolvable page.
Embeddable(list, doc) ==
  SelectSeq(list, LAMBDA sig : /\ embedderAccepts(sig.image)
                               /\ sig.page >= 0
                               /\ sig.page < Len(PageSizes(doc)))

\* C8 -- independent failure.  Every embed pass runs to its end, and at its
\* end exactly the overlays of its list with valid image data and a
\* resolvable page have been drawn, in list order; overlays with malformed
\* image data are skipped.
C8_IndependentFailure ==
  [][(dl.pc \in {"load", "embed"} /\ dl'.pc \notin {"load", "embed"})
     => /\ dl'.pc = "save"
        /\ LET due == Embeddable(PassList, dl.doc)
           IN  /\ Len(dl'.draws) = Len(due)
               /\ \A k \in 1..Len(due) :
                    /\ dl'.draws[k].page = due[k].page
                    /\ dl'.draws[k].image = due[k].image
    ]_vars

\* C9 -- embed inverse.  A page-space rectangle mapped to percentages by
\* getFieldBoundsForPage and scaled back by the embed geometry is the
\* original rectangle.
C9_EmbedInverse ==
  fieldView.stage = "drawn"
  => /\ fieldView.drawn.x = fieldView.field.x
     /\ fieldView.drawn.y = fieldView.field.y
     /\ fieldView.drawn.width = fieldView.field.width
     /\ fieldView.drawn.height = fieldView.field.height

\* C11 -- page filtering.  The per-page view holds only overlays of the
\* store whose page is the viewed page, all of them, and in the order in
\* which they were added.
C11_PageFiltering ==
  LET view == currentSignatures
  IN  /\ \A k \in 1..Len(view) :
           /\ view[k].page = currentPage
           /\ \E j \in 1..Len(signatures) : signatures[j] = view[k]
      /\ Len(view) =
           Cardinality({j \in 1..Len(signatures) : signatures[j].page = currentPage})
      /\ \A k \in 1..(Len(view) - 1) : view[k].seq < view[k + 1].seq

\* Overlays are stored on both pages of B and the second page is viewed.
C11_Witness ==
  /\ pdfFile = "B"
  /\ currentPage = 1
  /\ Len(signatures) = 2
  /\ signatures[1].page # signatures[2].page
  /\ Len(currentSignatures) = 1

\* C12 -- field geometry mapper.  A field rectangle (x, y, w, h) of the page
\* shown, of size (pageW, pageH), is mapped to xPercent = x/pageW*100,
\* yPercent = (pageH - y - h)/pageH*100, widthPercent = w/pageW*100 and
\* heightPercent = h/pageH*100; page 600x800 and (60, 700, 120, 40) give
\* (10, 7.5, 20, 5).
C12_FieldGeometryMapper ==
  fieldView.stage \in {"mapped", "drawn"}
  => LET f == fieldView.field
         b == fieldView.bounds
         pageW == PageSizes("B")[fieldView.pageNum + 1][1]
         pageH == PageSizes("B")[fieldView.pageNum + 1][2]
     IN  /\ b.xPercent = Norm(100 * f.x.n, pageW)
         /\ b.yPercent = Norm(100 * (pageH - f.y.n - f.height.n), pageH)
         /\ b.widthPercent = Norm(100 * f.width.n, pageW)
         /\ b.heightPercent = Norm(100 * f.height.n, pageH)
         /\ (f.x.n = 60 /\ f.y.n = 700 /\ f.width.n = 120 /\ f.height.n = 40)
            => /\ b.xPercent = Num(10)
               /\ b.yPercent = Norm(15, 2)
               /\ b.widthPercent = Num(20)
               /\ b.heightPercent = Num(5)

\* The rectangle (60, 700, 120, 40) of the 600x800 page has been mapped.
C12_Witness ==
  /\ fieldView.stage = "mapped"
  /\ fieldView.pageNum = 0
  /\ fieldView.field.y = Num(700)
  /\ fieldView.bounds.yPercent = Norm(15, 2)

\* b is a or one of the n numbers that follow a.
RECURSIVE F64Reaches(_, _, _)
F64Reaches(a, b, n) ==
  a = b \/ (n > 0 /\ a.m[1] = 1 /\ F64Reaches(F64Succ(a), b, n - 1))

\* C13 as stated: for every percent p in [0,100] and every dimension d > 0,
\* pixelsToPercent(percentToPixels(p, d), d) equals p.
C13_RoundTripExact ==
  roundTrip.stage = "back" => roundTrip.percent = F64FromInt(roundTrip.p)

\* C13 (amended): for every whole percent p in [0,100] and every whole
\* dimension d >= 1, pixelsToPercent(percentToPixels(p, d), d) is at most
\* four units in the last place away from p, and is p itself when p is 0.
C13_RoundTripWithinUlps ==
  roundTrip.stage = "back" =>
    LET p == F64FromInt(roundTrip.p)
    IN  /\ F64Reaches(p, roundTrip.percent, 4)
           \/ F64Reaches(roundTrip.percent, p, 4)
        /\ roundTrip.p = 0 => roundTrip.percent = F64Zero

C13_Witness ==
  /\ roundTrip.stage = "back"
  /\ roundTrip.p = 7
  /\ roundTrip.d = 1
  /\ roundTrip.percent = F64Succ(F64FromInt(7))

\* The geometry and page of every stored overlay, in list order.
Geometry(sigs) ==
  [k \in 1..Len(sigs) |->
     <<sigs[k].page, sigs[k].xPercent, sigs[k].yPercent,
       sigs[k].widthPercent, sigs[k].heightPercent>>]

\* C14 -- a move while Idle is a no-op.  A pointer move received while
\* neither a drag nor a resize is in progress leaves every overlay's geometry
\* and the DragState unchanged.
C14_IdleMoveNoOp ==
  [][(~Active /\ ev' = "move")
     => Geometry(signatures') = Geometry(signatures) /\ dragState' = dragState
    ]_vars

C14_Witness ==
  /\ ev = "move"
  /\ ~Active
  /\ hasContainer /\ containerWidth # 0
  /\ Len(signatures) > 0

\* The overlay's page index resolves to a page of the document.
Resolves(sig, doc) == sig.page >= 0 /\ sig.page < Len(PageSizes(doc))

\* embedSignatures runs from one suspension to the next.
PassStep ==
  \/ DownloadLoaded /\ sigManager.exists /\ Len(signatures) > 0
  \/ EmbedSettled

\* C15 -- missing page reference.  In the embed pass an overlay whose page
\* index does not resolve to a page of the output document is skipped without
\* error and every other overlay is still processed: each run of the loop
\* ends as it would on the list without the unresolvable overlays (it
\* suspends on the same overlay with the same rectangle, finishes, or fails
\* on the same malformed image).
C15_MissingPageSkipped ==
  [][PassStep
     => LET list == PassList
            start == IF dl.pc = "load" THEN 1 ELSE dl.i + 1
            kept == SelectSeq(SubSeq(list, start, Len(list)),
                              LAMBDA sig : Resolves(sig, dl.doc))
            run == embedLoop(kept, 1, PageSizes(dl.doc))
        IN  /\ run.kind = "await"
                => /\ dl'.pc = "embed"
                   /\ dl'.from = kept[run.i]
                   /\ dl'.rect = run.rect
            /\ run.kind = "done" => dl'.pc = "save"
            /\ run.kind = "throw" => ev' = "downloadFailed"
    ]_vars

C15_Witness ==
  /\ dl.pc = "save"
  /\ \E j \in 1..Len(signatures), k \in 1..Len(signatures), n \in 1..Len(dl.draws) :
       /\ j < k
       /\ ~Resolves(signatures[j], dl.doc)
       /\ dl.draws[n].from.seq = signatures[k].seq

\* C16 -- page index in range.  In every reachable state every stored
\* overlay's page index lies in [0, pageCount) of the document loaded.
C16_PageIndexInRange ==
  \A k \in 1..Len(signatures) :
    signatures[k].page >= 0 /\ signatures[k].page < pageCount

\* The list a move to pointer p leaves, from drag state ds and list sigs:
\* handleDrag, then handleResize unless handleDrag raised.
MoveResult(ds, p, sigs) ==
  IF onDragThrows(ds, sigs) THEN sigs
  ELSE onResize(ds, p, onDrag(ds, p, sigs))

\* C17 -- moves are idempotent snapshots.  Within a drag or a resize at a
\* fixed container size, a move to any pointer position gives the same
\* geometry whether or not another move came before it: the geometry after a
\* sequence of moves is that of its last move applied to the start state.
C17_MoveSnapshots ==
  [][(Active /\ ev' = "move")
     => \A q \in Points :
          Geometry(MoveResult(dragState', q, signatures'))
            = Geometry(MoveResult(dragState, q, signatures))
    ]_vars

C17_Witness ==
  /\ ev = "move"
  /\ Active /\ HasTarget
  /\ containerWidth # 0 /\ containerHeight # 0
  /\ signatures[dragState.dragIndex + 1].xPercent # Num(20)

\* The geometry of the stored overlays that are not on the page shown.
OtherPages(sigs) ==
  Geometry(SelectSeq(sigs, LAMBDA sig : sig.page # currentPage))

\* C18 -- stable identity.  With overlays stored on several pages, a remove
\* of the overlay shown at index j removes that overlay from the store, the
\* first move after a pointer-down on a shown overlay changes no overlay of
\* another page, and neither changes the overlays of the other pages.
C18_StableIdentity ==
  [][/\ \A j \in 0..(MaxSigs - 1) :
          Remove(j)
          => /\ OtherPages(signatures') = OtherPages(signatures)
             /\ Geometry(currentSignatures')
                  = Geometry(removeSignature(currentSignatures, j))
     /\ (ev \in {"downOverlay", "downHandle"} /\ ev' = "move")
          => OtherPages(signatures') = OtherPages(signatures)
    ]_vars

\* The pixel size startResize recorded is the stored size of sig under one
\* of the container sizes: no move of this resize has changed sig yet.
CapturedFrom(sig) ==
  \E old \in ResizedSizes :
    /\ dragState.resizeStart.width = percentToPixels(sig.widthPercent, Num(old[1]))
    /\ dragState.resizeStart.height = percentToPixels(sig.heightPercent, Num(old[2]))

\* C19 -- moves use the container size of the moment.  The first move of a
\* resize stores the size the overlay has under the container's present
\* dimensions, grown by the pointer's travel and floored at 50 x 25 px,
\* converted with the same present dimensions -- also when the container
\* was resized after startResize.
C19_MoveUsesCurrentSize ==
  [][(/\ dragState.isResizing /\ HasTarget
      /\ containerWidth # 0 /\ containerHeight # 0
      /\ CapturedFrom(signatures[dragState.dragIndex + 1])
      /\ ev' = "move")
     => \E q \in Points :
          LET sig == signatures[dragState.dragIndex + 1]
              size == PixelSize(sig)
              dx == Sub(Num(q[1]), dragState.dragStart.x)
              dy == Sub(Num(q[2]), dragState.dragStart.y)
              newWidth == MathMax(Num(50), Add(size[1], dx))
              newHeight == MathMax(Num(25), Add(size[2], dy))
          IN  /\ PointerMove(q)
              /\ signatures'[dragState.dragIndex + 1].widthPercent
                   = pixelsToPercent(newWidth, Num(containerWidth))
              /\ signatures'[dragState.dragIndex + 1].heightPercent
                   = pixelsToPercent(newHeight, Num(containerHeight))
    ]_vars

\* C20 -- no geometry mutation during the embed pass.  From the start of
\* downloadPDF to the end of embedSignatures, no step other than the pass's
\* own changes the overlays the pass has still to embed: the stored list
\* while the document is being loaded, and the elements after the one being
\* embedded while the loop is suspended.
C20_NoMutationDuringPass ==
  [][/\ (dl.pc = "load" /\ dl'.pc = "load")
          => Geometry(signatures') = Geometry(signatures)
     /\ (dl.pc = "embed" /\ dl'.pc = "embed" /\ dl'.i = dl.i)
          => \A k \in (dl.i + 1)..Len(dl.arr) :
               Geometry(dl'.arr)[k] = Geometry(dl.arr)[k]
    ]_vars

\* C21 -- minimum size at commit.  When downloadPDF starts, every stored
\* overlay measures at least 50 x 25 px on the container as it is then.
C21_MinimumSizeAtCommit ==
  [][(dl.pc = "idle" /\ dl'.pc = "load")
     => \A k \in 1..Len(signatures) :
          LET size == PixelSize(signatures[k])
          IN  AtLeast(size[1], Num(50)) /\ AtLeast(size[2], Num(25))
    ]_vars

\* C22 -- add appends one overlay.  "Add Signature to Page" appends exactly
\* one overlay, on the page shown, at the end of the store when a signature
\* image is held and the container has non-zero width and height at that
\* moment, and appends nothing otherwise; the overlays already stored are
\* unchanged.
C22_AddAppendsOne ==
  [][AddSignatureToPage
     => LET n == Len(signatures)
        IN  IF /\ sigManager.signatureImage # "null"
               /\ containerWidth # 0 /\ containerHeight # 0
            THEN /\ Len(signatures') = n + 1
                 /\ signatures'[n + 1].page = currentPage
                 /\ Geometry(SubSeq(signatures', 1, n)) = Geometry(signatures)
            ELSE Geometry(signatures') = Geometry(signatures)
    ]_vars

\* C23 -- re-publish on page change.  When the page shown has just changed,
\* the next startResize, or move of an active drag or resize, reads
\* ContainerDimensions equal to the size the container has by then.
C23_RepublishOnPageChange ==
  [][(/\ ev = "navigate"
      /\ \/ ev' = "downHandle"
         \/ ev' = "move" /\ Active /\ HasTarget)
     => <<containerWidth, containerHeight>> = element
    ]_vars

\* C24 -- scoped observation.  Once the preview container has been torn
\* down, no resize callback updates ContainerDimensions: they change again
\* only when a container is mounted.
C24_ScopedObservation ==
  [][(~Mounted /\ pdfFile' = "none")
     => /\ containerWidth' = containerWidth
        /\ containerHeight' = containerHeight
    ]_vars

\* The percentage of a pixel length, with no bound applied.
Unclamped(pixels, size) == Div(Mul(pixels, Num(100)), Num(size))

\* C25 -- drag and resize apply no clamping.  After a move of a drag or a
\* resize with a target overlay, for the pointer position q of the move, the
\* stored origin is exactly the percentage of (q - dragStart) and the stored
\* size exactly the percentage of max(50, width + dx), max(25, height + dy):
\* nothing keeps the overlay inside the page box.
C25_NoClamping ==
  [][(Active /\ HasTarget /\ hasContainer /\ ev' = "move"
      /\ containerWidth # 0 /\ containerHeight # 0)
     => \E q \in Points \cup FarPoints :
          LET ds == dragState
              o == signatures'[ds.dragIndex + 1]
              dx == Sub(Num(q[1]), ds.dragStart.x)
              dy == Sub(Num(q[2]), ds.dragStart.y)
          IN  /\ ds.isDragging
                   => /\ o.xPercent = Unclamped(dx, containerWidth)
                      /\ o.yPercent = Unclamped(dy, containerHeight)
              /\ ds.isResizing
                   => /\ o.widthPercent
                           = Unclamped(MathMax(Num(50), Add(ds.resizeStart.width, dx)),
                                       containerWidth)
                      /\ o.heightPercent
                           = Unclamped(MathMax(Num(25), Add(ds.resizeStart.height, dy)),
                                       containerHeight)
    ]_vars

\* After moves, one overlay has its origin left of and above the page box, and
\* one has its origin and its size beyond 100 percent.
C25_Witness ==
  /\ ev = "move"
  /\ \E k \in 1..Len(signatures) :
       /\ Less(signatures[k].xPercent, Num(0))
       /\ Less(signatures[k].yPercent, Num(0))
  /\ \E k \in 1..Len(signatures) :
       /\ Less(Num(100), signatures[k].xPercent)
       /\ Less(Num(100), signatures[k].yPercent)
       /\ Less(Num(100), signatures[k].widthPercent)
       /\ Less(Num(100), signatures[k].heightPercent)

\* The fields of an overlay that no move may write.
Fixed(sig) == <<sig.page, sig.image>>

\* C26 -- frame of a move.  A move of a drag writes only xPercent and yPercent
\* of the overlay at dragIndex, a move of a resize only widthPercent and
\* heightPercent of that overlay; image and page of the overlay, every other
\* overlay, the number and order of the overlays and the container size stay
\* as they were.
C26_MoveFrame ==
  [][(Active /\ HasTarget /\ ev' = "move")
     => LET i == dragState.dragIndex + 1
        IN  /\ Len(signatures') = Len(signatures)
            /\ \A k \in 1..Len(signatures) :
                 /\ Fixed(signatures'[k]) = Fixed(signatures[k])
                 /\ k # i => Geometry(signatures')[k] = Geometry(signatures)[k]
            /\ dragState.isResizing
                 => /\ signatures'[i].xPercent = signatures[i].xPercent
                    /\ signatures'[i].yPercent = signatures[i].yPercent
            /\ ~dragState.isResizing
                 => /\ signatures'[i].widthPercent = signatures[i].widthPercent
                    /\ signatures'[i].heightPercent = signatures[i].heightPercent
            /\ containerWidth' = containerWidth
            /\ containerHeight' = containerHeight
    ]_vars

\* C27 -- field projections are addressed by page index.  Once the mapper
\* has run for a field and the page shown, the field has a projection exactly
\* when that page is one of the pages the field is on.
C27_AddressedByPage ==
  fieldView.stage \in {"null", "mapped", "drawn"}
  => LET indices == fieldView.field.pageIndices
         onPage == \E k \in 1..Len(indices) : indices[k] = fieldView.pageNum
     IN  (fieldView.stage # "null") <=> onPage

\* C28 -- the drag target exists.  Whenever a drag or a resize is in
\* progress, dragIndex is an index of the overlay list: 0 <= dragIndex <
\* number of overlays.
C28_TargetExists ==
  Active => /\ 0 <= dragState.dragIndex
            /\ dragState.dragIndex < Len(signatures)

\* C29 -- the form is filled into the document that is downloaded.  When
\* downloadPDF, run on a document with form fields whose values passed
\* validation, goes on after loading the document, the form data has been
\* written into the document that then gets the signatures and is saved.
C29_FilledIntoSavedDocument ==
  [][(dl.pc = "load" /\ dl'.pc \in {"embed", "save"} /\ formFields > 0)
     => dl'.filled = formData]_vars

\* Every field of the document shown passes validateField.
AllFieldsPass ==
  \A f \in 1..formFields : validateField(FormFields(pdfFile)[f], formData[f])

\* C30 -- download stops on an invalid form.  When downloadPDF is called on a
\* document with form fields, it goes on to load the document exactly when
\* every field passes validateField; otherwise it ends there: no call is in
\* progress afterwards and overlays and form data are as before.
C30_InvalidFormStops ==
  [][(dl.pc = "idle" /\ formFields > 0
      /\ ev' \in {"downloadInvalid", "downloadStart"})
     => IF AllFieldsPass
        THEN dl'.pc = "load"
        ELSE /\ ev' = "downloadInvalid"
             /\ dl' = dl
             /\ signatures' = signatures
             /\ formData' = formData
    ]_vars

\* downloadPDF has just stopped on a form whose first field is valid and
\* whose second is not, with an overlay in the store.
C30_Witness ==
  /\ ev = "downloadInvalid"
  /\ dl.pc = "idle"
  /\ Len(signatures) > 0
  /\ formData = <<"a", "bb">>

====
